---------------------------- MODULE Spec2Model ----------------------------
(***************************************************************************)
(* TuxyCleaner (src/tuxycleaner_gui.py): a Qt window that starts a         *)
(* CleanerWorker thread which cleans the temp directory, optionally the    *)
(* browser caches, empties the recycle bin and reports through signals.    *)
(*                                                                         *)
(* The source file holds the program twice.  Lines 1-287 are the build     *)
(* with _delete_file_safe and the metrics dictionary (variant 1: what runs *)
(* when the file is executed, its first __main__ block never returns).     *)
(* Lines 288-573 redefine everything with the preview checkbox and a       *)
(* single "freed" figure per pass (variant 2: what an import yields).      *)
(* Both are modelled; `variant` says which one a behaviour is about.       *)
(***************************************************************************)
EXTENDS Integers, Sequences, FiniteSets, TLC

(***************************************************************************)
(* Bounds of the model.                                                    *)
(***************************************************************************)
MaxRuns == 2      \* runs the user starts in one behaviour
MaxEnv  == 1      \* changes other processes make to the disk during runs
MaxCand == 101    \* plain files in the temp directory of the worker-only specification
MaxFew  == 3      \* files on the disk of the single-run specification

(***************************************************************************)
(* Program constants.                                                      *)
(***************************************************************************)
ProgressEvery == 50     \* i % 50 == 0
TempSpan      == 60     \* int(i*60/n)
BrowserBase   == 60     \* 60 + int(...)
BrowserSpan   == 30     \* processed * 30 / total_entries
FinalPercent  == 100    \* self.progress.emit(100)
BytesPerKb    == 1024   \* max_size_mb * 1024 * 1024

Max(a, b) == IF a >= b THEN a ELSE b

(***************************************************************************)
(* Paths are sequences of names.                                           *)
(***************************************************************************)
IsPrefix(p, q) == Len(p) <= Len(q) /\ SubSeq(q, 1, Len(p)) = p
Parent(p) == SubSeq(p, 1, Len(p) - 1)

TEMP_DIR == <<"Temp">>
LOCALAPPDATA == <<"Local">>
APPDATA      == <<"Roam">>

TempA    == TEMP_DIR \o <<"a">>                  \* a file directly in the temp directory
TempSub  == TEMP_DIR \o <<"sub">>                \* a directory
TempDeep == TEMP_DIR \o <<"sub", "deep">>        \* a directory below it
TempC    == TEMP_DIR \o <<"sub", "deep", "c">>   \* a file two levels down
Bulk(j)  == TEMP_DIR \o <<ToString(j)>>          \* the j-th of many plain files

Chrome   == LOCALAPPDATA \o <<"Chrome", "Cache">>
Edge     == LOCALAPPDATA \o <<"Edge", "Cache">>
Brave    == LOCALAPPDATA \o <<"Brave", "Cache">>
ff_root  == APPDATA \o <<"Profiles">>
Prof     == ff_root \o <<"p1">>
ProfCache == Prof \o <<"cache2">>
ChromeX  == Chrome \o <<"x">>                    \* a file in Chrome's cache
EdgeY    == Edge \o <<"y">>                      \* a file in Edge's cache

TempFilePaths    == {TempA, TempC}
BrowserFilePaths == {ChromeX, EdgeY}
BrowserRoots     == {Chrome, Edge, Brave}

\* The order in which a walk meets the entries: a directory before what it holds.
WalkOrder ==
    <<TempA, TempSub, TempDeep, TempC>> \o [j \in 1..MaxCand |-> Bulk(j)] \o
    <<Chrome, ChromeX, Edge, EdgeY, Brave, ff_root, Prof, ProfCache>>

VARIABLES
    disk,             \* regular files: path -> [size, writable, busy]
    dirs,             \* the directories that exist
    SETTINGS,         \* [excludes, max_size_mb], loaded once at import
    variant,          \* 1: lines 1-287, 2: lines 288-573
    chk_preview,      \* the preview checkbox (variant 2)
    chk_browsers,     \* the browser cache checkbox
    btn_clean,        \* the clean button is enabled
    ui,               \* "main", or the modal dialog the GUI thread is in
    asked,            \* start_clean's locals while its dialog is open
    report,           \* what finish_clean last reported
    pc,               \* the worker thread's position
    phase,            \* the pass the worker is in
    preview,          \* CleanerWorker.preview
    include_browsers, \* CleanerWorker.include_browsers
    files,            \* _clean_temp's list of (path, size)
    i,                \* _clean_temp's loop index
    loc,              \* _delete_file_safe's locals
    acc,              \* the running pass's counters
    metrics,          \* run's result
    bdirs,            \* _clean_browsers' dirs
    total_entries,    \* _clean_browsers' total_entries
    processed,        \* _clean_browsers' processed
    bfiles,           \* what is left of the current root's walk
    events,           \* the signals the current run has emitted, in order
    doneq,            \* a done signal is queued for the GUI thread
    started,          \* workers started so far
    completed,        \* done signals emitted so far
    unlinked,         \* history: the files the current run removed itself
    handled,          \* history: per pass, the files the current run went through
    trashCalls,       \* history: calls of empty_recycle_bin in the current run
    trashRaised,      \* history: such a call raised
    envCount          \* changes made by other processes so far

vars == <<disk, dirs, SETTINGS, variant, chk_preview, chk_browsers, btn_clean, ui,
          asked, report, pc, phase, preview, include_browsers, files, i, loc, acc,
          metrics, bdirs, total_entries, processed, bfiles, events, doneq, started,
          completed, unlinked, handled, trashCalls, trashRaised, envCount>>

guiVars    == <<chk_preview, chk_browsers, btn_clean, ui, asked, report>>
workerVars == <<pc, phase, preview, include_browsers, files, i, loc, acc, metrics,
                bdirs, total_entries, processed, bfiles>>

(***************************************************************************)
(* The file system as the program reads it.                                *)
(***************************************************************************)
Exists(p)  == p \in DOMAIN disk \/ p \in dirs
IsFile(p)  == p \in DOMAIN disk
StatSize(p) == disk[p].size

\* Path.rglob("*"): everything below root that exists, in walk order.
Rglob(root) ==
    SelectSeq(WalkOrder, LAMBDA p : Len(p) > Len(root) /\ IsPrefix(root, p) /\ Exists(p))

\* Path.glob("*"): the entries directly in root.
Glob(root) ==
    SelectSeq(WalkOrder, LAMBDA p : Len(p) = Len(root) + 1 /\ IsPrefix(root, p) /\ Exists(p))

Reverse(s) == [j \in 1..Len(s) |-> s[Len(s) + 1 - j]]

MaxBytes(max_size_mb) == max_size_mb * BytesPerKb * BytesPerKb

\* A faulty variant: the ceiling itself is excluded.
IsCandidateBelowCeiling(p, max_bytes) == IsFile(p) /\ StatSize(p) < max_bytes

\* candidate_files' test of one entry.
IsCandidate(p, max_bytes) == IsFile(p) /\ StatSize(p) <= max_bytes

\* candidate_files(temp_dir, max_size_mb), as the list its caller builds.
candidate_files(temp_dir, max_size_mb) ==
    LET yielded == SelectSeq(Rglob(temp_dir),
                             LAMBDA p : IsCandidate(p, MaxBytes(max_size_mb)))
    IN  [j \in 1..Len(yielded) |-> [path |-> yielded[j], size |-> StatSize(yielded[j])]]

\* browser_cache_dirs(): the three fixed caches, then one cache2 per profile entry.
browser_cache_dirs ==
    <<Chrome, Edge, Brave>> \o
    (IF Exists(ff_root)
        THEN [j \in 1..Len(Glob(ff_root)) |-> Glob(ff_root)[j] \o <<"cache2">>]
        ELSE <<>>)

\* sum(1 for d in dirs if d.exists()) or 1
TotalEntries(ds) ==
    LET cnt == Cardinality({j \in 1..Len(ds) : Exists(ds[j])})
    IN  IF cnt = 0 THEN 1 ELSE cnt

\* The reverse-order rmdir pass: a directory goes when nothing is left in it.
IsEmptyDir(d, fs, ds) == ~ \E q \in (DOMAIN fs) \cup ds : Len(q) > Len(d) /\ IsPrefix(d, q)

\* entries from position j on, ds being the directories still there.
RECURSIVE RmdirFrom(_, _, _, _)
RmdirFrom(entries, j, fs, ds) ==
    IF j > Len(entries) THEN ds
    ELSE RmdirFrom(entries, j + 1, fs,
                   IF IsEmptyDir(entries[j], fs, ds) THEN ds \ {entries[j]} ELSE ds)

\* if d.is_dir(): d.rmdir(), over the reversed listing.
RmdirPass(entries, fs, ds) ==
    RmdirFrom(SelectSeq(entries, LAMBDA d : d \in ds), 1, fs, ds)

Unlink(p) == [q \in DOMAIN disk \ {p} |-> disk[q]]

\* Path.unlink raises on a file that exists and is in use or read-only (Windows).
UnlinkRaises(p) == IsFile(p) /\ (disk[p].busy \/ ~disk[p].writable)

(***************************************************************************)
(* Progress arithmetic.  Python's int(a/b) of non-negative integers far    *)
(* below 2^53 is the floor of the quotient.                                *)
(***************************************************************************)
\* Faulty variants: no event for the last candidate; the share still to do.
TempEmitsOnMultiples(idx, n) == idx % ProgressEvery = 0
TempPercentRemaining(idx, n) == ((n - idx) * TempSpan) \div n

TempEmits(idx, n)   == idx % ProgressEvery = 0 \/ idx = n
TempPercent(idx, n) == (idx * TempSpan) \div n
BrowserPercent(done, total) == BrowserBase + (done * BrowserSpan) \div total

ZeroAcc == [detected |-> 0, deleted |-> 0, count |-> 0, freed |-> 0]
InitialMetrics == [temp |-> ZeroAcc, browsers |-> ZeroAcc, recycle |-> FALSE]

Status(ph)      == [sig |-> "status", val |-> 0, phase |-> ph]
Progress(v, ph) == [sig |-> "progress", val |-> v, phase |-> ph]
Done            == [sig |-> "done", val |-> 0, phase |-> "end"]

Running == pc \notin {"idle", "finished", "crashed"}


(***************************************************************************)
(* Initial states: the window after __init__ (refresh_estimate has enabled *)
(* the button), no worker yet, and a disk drawn from two families: a temp  *)
(* tree with every mix of files beside fixed caches, or a fixed temp tree  *)
(* beside every mix of browser cache roots and files.                      *)
(***************************************************************************)
CeilingsMb == {0, 1}
SizesAt(mb) == {MaxBytes(mb), MaxBytes(mb) + 1}
PlainFile(sz) == [size |-> sz, writable |-> TRUE, busy |-> FALSE]
FileRecs(S) ==
    { [size |-> sz, writable |-> wb[1], busy |-> wb[2]] :
        sz \in S, wb \in {<<TRUE, FALSE>>, <<FALSE, FALSE>>, <<TRUE, TRUE>>} }
Disks(paths, S) == UNION { [D -> FileRecs(S)] : D \in SUBSET paths }
FirefoxDirs == { {}, {ff_root, Prof}, {ff_root, Prof, ProfCache} }

NoLocals == [preview |-> FALSE, include_browsers |-> FALSE]
NoFile   == [p |-> <<>>, size |-> 0]
NoneHandled == [temp |-> <<>>, browsers |-> <<>>]

InitGui ==
    /\ chk_preview = FALSE
    /\ chk_browsers = FALSE
    /\ btn_clean = TRUE
    /\ ui = "main"
    /\ asked = NoLocals
    /\ report = "none"

InitWorker ==
    /\ phase = "none"
    /\ files = <<>>
    /\ i = 0
    /\ loc = NoFile
    /\ acc = ZeroAcc
    /\ metrics = InitialMetrics
    /\ bdirs = <<>>
    /\ total_entries = 0
    /\ processed = 0
    /\ bfiles = <<>>
    /\ events = <<>>
    /\ doneq = FALSE
    /\ completed = 0
    /\ unlinked = {}
    /\ handled = NoneHandled
    /\ trashCalls = 0
    /\ trashRaised = FALSE
    /\ envCount = 0

InitTempRich ==
    /\ SETTINGS \in [excludes : {{}, {TempSub}}, max_size_mb : CeilingsMb]
    /\ disk \in Disks(TempFilePaths, SizesAt(SETTINGS.max_size_mb))
    /\ dirs = {TEMP_DIR, TempSub, TempDeep}

InitBrowserRich ==
    /\ SETTINGS = [excludes |-> {}, max_size_mb |-> 1]
    /\ \E roots \in SUBSET BrowserRoots, ff \in FirefoxDirs :
          /\ dirs = {TEMP_DIR} \cup roots \cup ff
          /\ \E b \in Disks({f \in BrowserFilePaths : Parent(f) \in roots},
                            {MaxBytes(SETTINGS.max_size_mb) + 1}) :
                disk = b @@ (TempA :> PlainFile(MaxBytes(SETTINGS.max_size_mb)))

Init ==
    /\ variant \in {1, 2}
    /\ InitTempRich \/ InitBrowserRich
    /\ InitGui
    /\ InitWorker
    /\ pc = "idle"
    /\ preview = FALSE
    /\ include_browsers = FALSE
    /\ started = 0

(***************************************************************************)
(* The worker alone on a quiet disk with many plain temp files: the state  *)
(* right after start_clean has started it.                                 *)
(***************************************************************************)
InitMany ==
    /\ variant \in {1, 2}
    /\ SETTINGS = [excludes |-> {}, max_size_mb |-> 1]
    /\ \E cnt \in 0..MaxCand, roots \in SUBSET BrowserRoots :
          /\ cnt = MaxCand \/ roots = {Edge, Brave}
          /\ dirs = {TEMP_DIR, TempSub} \cup roots
          /\ disk = [p \in {Bulk(j) : j \in 1..cnt} \cup ({EdgeY} \cap {r \o <<"y">> : r \in roots})
                        |-> PlainFile(1)]
    /\ preview \in (IF variant = 2 THEN BOOLEAN ELSE {FALSE})
    /\ include_browsers \in BOOLEAN
    /\ chk_preview = preview
    /\ chk_browsers = include_browsers
    /\ btn_clean = FALSE
    /\ ui = "main"
    /\ asked = NoLocals
    /\ report = "none"
    /\ InitWorker
    /\ pc = "temp_scan"
    /\ started = 1

(***************************************************************************)
(* CleanerWorker.  N is _clean_temp's n = max(len(files), 1).              *)
(***************************************************************************)
N == Max(Len(files), 1)

Emit(e) == events' = Append(events, e)

\* A listing outside every try block raises (a directory vanished or cannot be
\* read while it is walked): the exception ends run() before its last lines.
ListingRaises ==
    /\ pc \in {"temp_scan", "temp_dirs", "bro_list", "bro_enter"}
    /\ pc' = "crashed"
    /\ UNCHANGED <<disk, dirs, SETTINGS, variant, guiVars, phase, preview,
                   include_browsers, files, i, loc, acc, metrics, bdirs, total_entries,
                   processed, bfiles, events, doneq, started, completed, unlinked,
                   handled, trashCalls, trashRaised, envCount>>

\* run() builds its metrics and enters _clean_temp:
\* files = list(candidate_files(...)); n = max(len(files), 1); status.emit(...)
TempScan ==
    /\ pc = "temp_scan"
    /\ files' = candidate_files(TEMP_DIR, SETTINGS.max_size_mb)
    /\ i' = 1
    /\ acc' = ZeroAcc
    /\ phase' = "temp"
    /\ metrics' = InitialMetrics
    /\ Emit(Status("temp"))
    /\ pc' = "temp_loop"
    /\ UNCHANGED <<disk, dirs, SETTINGS, variant, guiVars, preview, include_browsers,
                   loc, bdirs, total_entries, processed, bfiles, doneq,
                   started, completed, unlinked, handled, trashCalls, trashRaised, envCount>>

\* The end of one iteration of _clean_temp's loop, with the pass's new counters.
AfterTempFile(newAcc) ==
    /\ acc' = newAcc
    /\ events' = IF TempEmits(i, N)
                    THEN Append(events, Progress(TempPercent(i, N), "temp"))
                    ELSE events
    /\ i' = i + 1
    /\ pc' = "temp_loop"

\* A faulty variant: the loop takes its next file from a fresh listing.
TempTargetRelisted(idx) ==
    LET fresh == candidate_files(TEMP_DIR, SETTINGS.max_size_mb)
    IN  IF fresh # <<>> THEN fresh[1] ELSE files[idx]

\* for i, (f, size) in enumerate(files, start=1): the loop walks the list built
\* before it started.
TempTarget(idx) == files[idx]

\* Variant 1, line 123: the call of _delete_file_safe(f).
TempCall ==
    /\ pc = "temp_loop" /\ variant = 1 /\ i <= Len(files)
    /\ loc' = [p |-> TempTarget(i).path, size |-> 0]
    /\ handled' = [handled EXCEPT !.temp = Append(@, TempTarget(i))]
    /\ pc' = "stat"
    /\ UNCHANGED <<disk, dirs, SETTINGS, variant, guiVars, phase, preview,
                   include_browsers, files, i, acc, metrics, bdirs, total_entries,
                   processed, bfiles, events, doneq, started, completed, unlinked,
                   trashCalls, trashRaised, envCount>>

\* A faulty variant: the preview flag is not consulted.
DeletesAlways == TRUE

\* Variant 2's "if self.preview:" around the unlink: whether this run deletes.
Deletes == ~preview

\* What variant 2 adds to freed for one file of the given size.
PreviewFreed(size) == size
DeletedFreed(size, raised) == IF raised THEN 0 ELSE size

\* Variant 2, lines 392-403: one iteration of the loop.
TempFile2 ==
    /\ pc = "temp_loop" /\ variant = 2 /\ i <= Len(files)
    /\ LET f == TempTarget(i).path
           size == TempTarget(i).size
           raised == UnlinkRaises(f)
       IN  /\ handled' = [handled EXCEPT !.temp = Append(@, TempTarget(i))]
           /\ IF ~Deletes
                 THEN /\ AfterTempFile([acc EXCEPT !.freed = @ + PreviewFreed(size)])
                      /\ UNCHANGED <<disk, unlinked>>
                 ELSE /\ AfterTempFile([acc EXCEPT !.freed = @ + DeletedFreed(size, raised)])
                      /\ disk' = IF IsFile(f) /\ ~raised THEN Unlink(f) ELSE disk
                      /\ unlinked' = IF IsFile(f) /\ ~raised
                                        THEN unlinked \cup {f} ELSE unlinked
    /\ UNCHANGED <<dirs, SETTINGS, variant, guiVars, phase, preview, include_browsers,
                   files, loc, metrics, bdirs, total_entries, processed, bfiles, doneq,
                   started, completed, trashCalls, trashRaised, envCount>>

(***************************************************************************)
(* _delete_file_safe(p) -> (detected, deleted), variant 1 lines 99-115,    *)
(* one step per system call: stat, access, unlink.                         *)
(***************************************************************************)
\* A faulty variant: a missing file counts as one byte.
StatOrOne(p) == IF Exists(p) THEN StatSize(p) ELSE 1

\* size = p.stat().st_size if p.exists() else 0
StatOrZero(p) == IF Exists(p) THEN StatSize(p) ELSE 0
\* os.access(p, os.W_OK)
CanWrite(p) == IsFile(p) /\ disk[p].writable
\* A faulty variant: the pair the wrong way round.
RetUnlinkFailedSwapped(detected) == <<0, detected>>

\* A faulty variant: a file that may not be written counts as deleted.
RetNoWriteCounted(detected) == <<detected, detected>>

\* The three returns of the try block.
RetDeleted(detected, size) == <<detected, size>>
RetUnlinkFailed(detected)  == <<detected, 0>>
RetNoWrite(detected)       == <<detected, 0>>

\* A faulty variant: only deletions are counted.
CountDeletionsOnly(count, out) == IF out[2] > 0 THEN count + 1 ELSE count

\* count += 1 of the two callers.
CountAfter(count, out) == count + 1

\* The caller's use of the returned pair: lines 124-127, or line 150.
Return(out) ==
    LET newAcc == [acc EXCEPT !.detected = @ + out[1], !.deleted = @ + out[2],
                              !.count = CountAfter(@, out)]
    IN  IF phase = "temp"
           THEN /\ AfterTempFile(newAcc)
                /\ UNCHANGED bfiles
           ELSE /\ acc' = newAcc
                /\ bfiles' = Tail(bfiles)
                /\ pc' = "bro_file"
                /\ UNCHANGED <<events, i>>

DfsStat ==
    /\ pc = "stat"
    /\ loc' = [loc EXCEPT !.size = StatOrZero(loc.p)]
    /\ pc' = "access"
    /\ UNCHANGED <<disk, dirs, SETTINGS, variant, guiVars, phase, preview,
                   include_browsers, files, i, acc, metrics, bdirs, total_entries,
                   processed, bfiles, events, doneq, started, completed, unlinked,
                   handled, trashCalls, trashRaised, envCount>>

DfsAccess ==
    /\ pc = "access"
    /\ IF CanWrite(loc.p)
          THEN /\ pc' = "unlink"
               /\ UNCHANGED <<acc, events, i, bfiles>>
          ELSE Return(RetNoWrite(loc.size))
    /\ UNCHANGED <<disk, dirs, SETTINGS, variant, guiVars, phase, preview,
                   include_browsers, files, loc, metrics, bdirs, total_entries,
                   processed, doneq, started, completed, unlinked, handled,
                   trashCalls, trashRaised, envCount>>

\* p.unlink(missing_ok=True): a missing file is no error.
DfsUnlink ==
    /\ pc = "unlink"
    /\ IF ~IsFile(loc.p)
          THEN /\ Return(RetDeleted(loc.size, loc.size))
               /\ UNCHANGED <<disk, unlinked>>
          ELSE IF UnlinkRaises(loc.p)
          THEN /\ Return(RetUnlinkFailed(loc.size))
               /\ UNCHANGED <<disk, unlinked>>
          ELSE /\ Return(RetDeleted(loc.size, loc.size))
               /\ disk' = Unlink(loc.p)
               /\ unlinked' = unlinked \cup {loc.p}
    /\ UNCHANGED <<dirs, SETTINGS, variant, guiVars, phase, preview, include_browsers,
                   files, loc, metrics, bdirs, total_entries, processed, doneq,
                   started, completed, handled, trashCalls, trashRaised, envCount>>

(***************************************************************************)
(* The end of _clean_temp: the empty-directory pass and the return.        *)
(***************************************************************************)
\* A faulty variant: the browsers pass runs whatever the flag says.
AfterTempAlwaysBrowsers == "bro_list"

\* run(): if self.include_browsers: ... _clean_browsers()
AfterTemp == IF include_browsers THEN "bro_list" ELSE "trash"

\* A faulty variant: the directory pass runs in preview too.
RmdirNeverSkipped == FALSE

\* Variant 2's "if not self.preview:" around the directory pass.
RmdirSkipped == variant = 2 /\ preview

\* The loop is over.  Variant 2 in preview skips the directory pass.
TempLoopEnd ==
    /\ pc = "temp_loop" /\ i > Len(files)
    /\ IF RmdirSkipped
          THEN /\ metrics' = [metrics EXCEPT !.temp = acc]
               /\ pc' = AfterTemp
          ELSE /\ pc' = "temp_dirs"
               /\ UNCHANGED metrics
    /\ UNCHANGED <<disk, dirs, SETTINGS, variant, guiVars, phase, preview,
                   include_browsers, files, i, loc, acc, bdirs, total_entries,
                   processed, bfiles, events, doneq, started, completed, unlinked,
                   handled, trashCalls, trashRaised, envCount>>

\* for d in list(TEMP_DIR.rglob("*"))[::-1]: rmdir, failures ignored; return.
TempDirs ==
    /\ pc = "temp_dirs"
    /\ dirs' = RmdirPass(Reverse(Rglob(TEMP_DIR)), disk, dirs)
    /\ metrics' = [metrics EXCEPT !.temp = acc]
    /\ pc' = AfterTemp
    /\ UNCHANGED <<disk, SETTINGS, variant, guiVars, phase, preview, include_browsers,
                   files, i, loc, acc, bdirs, total_entries, processed, bfiles, events,
                   doneq, started, completed, unlinked, handled, trashCalls, trashRaised, envCount>>

(***************************************************************************)
(* _clean_browsers.                                                        *)
(***************************************************************************)
\* dirs = browser_cache_dirs(); total_entries = ...; processed = 0
BroList ==
    /\ pc = "bro_list"
    /\ bdirs' = browser_cache_dirs
    /\ total_entries' = TotalEntries(browser_cache_dirs)
    /\ processed' = 0
    /\ acc' = ZeroAcc
    /\ phase' = "browsers"
    /\ pc' = "bro_root"
    /\ UNCHANGED <<disk, dirs, SETTINGS, variant, guiVars, preview, include_browsers,
                   files, i, loc, metrics, bfiles, events, doneq, started, completed,
                   unlinked, handled, trashCalls, trashRaised, envCount>>

\* processed += 1 at the head of the loop over dirs.
ProcessedAfter(done) == done + 1

\* for d in dirs: processed += 1; if not d.exists(): continue; status.emit(...)
BroRoot ==
    /\ pc = "bro_root" /\ processed < Len(bdirs)
    /\ processed' = ProcessedAfter(processed)
    /\ IF Exists(bdirs[processed + 1])
          THEN /\ Emit(Status("browsers"))
               /\ pc' = "bro_enter"
          ELSE UNCHANGED <<events, pc>>
    /\ UNCHANGED <<disk, dirs, SETTINGS, variant, guiVars, phase, preview,
                   include_browsers, files, i, loc, acc, metrics, bdirs, total_entries,
                   bfiles, doneq, started, completed, unlinked, handled, trashCalls, trashRaised,
                   envCount>>

\* for p in d.rglob("*"): the walk of the root just entered.
BroWalk ==
    /\ pc = "bro_enter"
    /\ bfiles' = Rglob(bdirs[processed])
    /\ pc' = "bro_file"
    /\ UNCHANGED <<disk, dirs, SETTINGS, variant, guiVars, phase, preview,
                   include_browsers, files, i, loc, acc, metrics, bdirs, total_entries,
                   processed, events, doneq, started, completed, unlinked, handled,
                   trashCalls, trashRaised, envCount>>

\* Variant 1, lines 148-150: if p.is_file(): _delete_file_safe(p)
BroFile1 ==
    /\ pc = "bro_file" /\ variant = 1 /\ bfiles # <<>>
    /\ IF IsFile(Head(bfiles))
          THEN /\ loc' = [p |-> Head(bfiles), size |-> 0]
               /\ handled' = [handled EXCEPT !.browsers =
                                  Append(@, [path |-> Head(bfiles), size |-> StatSize(Head(bfiles))])]
               /\ pc' = "stat"
               /\ UNCHANGED bfiles
          ELSE /\ bfiles' = Tail(bfiles)
               /\ UNCHANGED <<loc, handled, pc>>
    /\ UNCHANGED <<disk, dirs, SETTINGS, variant, guiVars, phase, preview,
                   include_browsers, files, i, acc, metrics, bdirs, total_entries,
                   processed, events, doneq, started, completed, unlinked, trashCalls, trashRaised,
                   envCount>>

\* Variant 2, lines 424-434: is_file, stat, then count or unlink, in one try.
BroFile2 ==
    /\ pc = "bro_file" /\ variant = 2 /\ bfiles # <<>>
    /\ LET p == Head(bfiles)
           raised == UnlinkRaises(p)
       IN  /\ bfiles' = Tail(bfiles)
           /\ IF ~IsFile(p)
                 THEN UNCHANGED <<acc, disk, unlinked, handled>>
                 ELSE /\ handled' = [handled EXCEPT !.browsers =
                                         Append(@, [path |-> p, size |-> StatSize(p)])]
                      /\ IF ~Deletes
                            THEN /\ acc' = [acc EXCEPT !.freed = @ + PreviewFreed(StatSize(p))]
                                 /\ UNCHANGED <<disk, unlinked>>
                            ELSE /\ acc' = [acc EXCEPT
                                              !.freed = @ + DeletedFreed(StatSize(p), raised)]
                                 /\ disk' = IF raised THEN disk ELSE Unlink(p)
                                 /\ unlinked' = IF raised THEN unlinked
                                                ELSE unlinked \cup {p}
    /\ UNCHANGED <<dirs, SETTINGS, variant, guiVars, pc, phase, preview,
                   include_browsers, files, i, loc, metrics, bdirs, total_entries,
                   processed, events, doneq, started, completed, trashCalls, trashRaised, envCount>>

\* The root's walk is over: progress.emit(60 + int(processed * 30 / total_entries))
BroRootDone ==
    /\ pc = "bro_file" /\ bfiles = <<>>
    /\ Emit(Progress(BrowserPercent(processed, total_entries), "browsers"))
    /\ pc' = "bro_root"
    /\ UNCHANGED <<disk, dirs, SETTINGS, variant, guiVars, phase, preview,
                   include_browsers, files, i, loc, acc, metrics, bdirs, total_entries,
                   processed, bfiles, doneq, started, completed, unlinked, handled,
                   trashCalls, trashRaised, envCount>>

\* The loop over dirs is over: return the pass's counters.
BroEnd ==
    /\ pc = "bro_root" /\ processed >= Len(bdirs)
    /\ metrics' = [metrics EXCEPT !.browsers = acc]
    /\ pc' = "trash"
    /\ UNCHANGED <<disk, dirs, SETTINGS, variant, guiVars, phase, preview,
                   include_browsers, files, i, loc, acc, bdirs, total_entries,
                   processed, bfiles, events, doneq, started, completed, unlinked,
                   handled, trashCalls, trashRaised, envCount>>

(***************************************************************************)
(* The end of run(): the recycle bin, progress 100, done.                  *)
(***************************************************************************)
\* A faulty variant: the recycle bin is emptied in preview too.
CallsTrashAlways == TRUE

\* Variant 2 calls empty_recycle_bin only outside preview; variant 1 always.
CallsTrash == variant = 1 \/ ~preview

\* A faulty variant: the flag is set before the call and stays.
RecycleDoneRegardless(raised) == variant = 1

\* metrics["recycle"]["done"] after the try block of variant 1; variant 2 keeps
\* no such flag and drops the outcome.
RecycleDone(raised) == variant = 1 /\ ~raised

\* status.emit(...); try: empty_recycle_bin() ... except: ...
\* The platform call succeeds or raises; either way run() goes on.
Trash ==
    /\ pc = "trash"
    /\ Emit(Status("trash"))
    /\ phase' = "trash"
    /\ IF CallsTrash
          THEN /\ trashCalls' = trashCalls + 1
               /\ \E raised \in BOOLEAN :
                     /\ trashRaised' = raised
                     /\ metrics' = [metrics EXCEPT !.recycle = RecycleDone(raised)]
          ELSE UNCHANGED <<trashCalls, trashRaised, metrics>>
    /\ pc' = "finish"
    /\ UNCHANGED <<disk, dirs, SETTINGS, variant, guiVars, preview, include_browsers,
                   files, i, loc, acc, bdirs, total_entries, processed, bfiles, doneq,
                   started, completed, unlinked, handled, envCount>>

\* A faulty variant: done before the last progress.
FinalEventsDoneFirst == <<Done, Progress(FinalPercent, "end")>>

\* The last two signals of run().
FinalEvents == <<Progress(FinalPercent, "end"), Done>>

\* self.progress.emit(100); self.done.emit(...)
Finish ==
    /\ pc = "finish"
    /\ events' = events \o FinalEvents
    /\ doneq' = TRUE
    /\ completed' = completed + 1
    /\ phase' = "end"
    /\ pc' = "finished"
    /\ UNCHANGED <<disk, dirs, SETTINGS, variant, guiVars, preview, include_browsers,
                   files, i, loc, acc, metrics, bdirs, total_entries, processed, bfiles,
                   started, unlinked, handled, trashCalls, trashRaised, envCount>>

WorkerNext ==
    \/ ListingRaises \/ TempScan \/ TempCall \/ TempFile2
    \/ DfsStat \/ DfsAccess \/ DfsUnlink
    \/ TempLoopEnd \/ TempDirs
    \/ BroList \/ BroRoot \/ BroWalk \/ BroFile1 \/ BroFile2 \/ BroRootDone \/ BroEnd
    \/ Trash \/ Finish

(***************************************************************************)
(* TuxyCleaner, the window.  Its dialogs are modal: while one is open the  *)
(* user reaches neither the button nor the checkboxes.                     *)
(***************************************************************************)
\* The button's state after start_clean has started a worker, and after
\* finish_clean has reported.
BtnLeftEnabled == TRUE      \* a faulty variant: the button stays enabled
BtnAfterStart  == FALSE
BtnAfterFinish == TRUE

TogglePreview ==
    /\ ui = "main" /\ variant = 2
    /\ chk_preview' = ~chk_preview
    /\ UNCHANGED <<disk, dirs, SETTINGS, variant, chk_browsers, btn_clean, ui, asked,
                   report, workerVars, events, doneq, started, completed, unlinked,
                   handled, trashCalls, trashRaised, envCount>>

\* The checkbox is read by start_clean alone, so a change of it during a run is
\* the same change made once the run is over.
ToggleBrowsers ==
    /\ ui = "main" /\ ~Running
    /\ chk_browsers' = ~chk_browsers
    /\ UNCHANGED <<disk, dirs, SETTINGS, variant, chk_preview, btn_clean, ui, asked,
                   report, workerVars, events, doneq, started, completed, unlinked,
                   handled, trashCalls, trashRaised, envCount>>

\* A click on the enabled button: start_clean reads the checkboxes and asks.
ClickClean ==
    /\ ui = "main" /\ btn_clean
    /\ started < MaxRuns
    /\ asked' = [preview |-> variant = 2 /\ chk_preview, include_browsers |-> chk_browsers]
    /\ ui' = "confirm"
    /\ UNCHANGED <<disk, dirs, SETTINGS, variant, chk_preview, chk_browsers, btn_clean,
                   report, workerVars, events, doneq, started, completed, unlinked,
                   handled, trashCalls, trashRaised, envCount>>

\* if reply != QMessageBox.Yes: return
ConfirmNo ==
    /\ ui = "confirm"
    /\ ui' = "main"
    /\ asked' = NoLocals
    /\ UNCHANGED <<disk, dirs, SETTINGS, variant, chk_preview, chk_browsers, btn_clean,
                   report, workerVars, events, doneq, started, completed,
                   unlinked, handled, trashCalls, trashRaised, envCount>>

\* The rest of start_clean: disable the button, create and start a new worker.
ConfirmYes ==
    /\ ui = "confirm"
    /\ ui' = "main"
    /\ asked' = NoLocals
    /\ btn_clean' = BtnAfterStart
    /\ preview' = asked.preview
    /\ include_browsers' = asked.include_browsers
    /\ pc' = "temp_scan"
    /\ started' = started + 1
    /\ phase' = "none" /\ files' = <<>> /\ i' = 0 /\ loc' = NoFile /\ acc' = ZeroAcc
    /\ metrics' = InitialMetrics
    /\ bdirs' = <<>> /\ total_entries' = 0 /\ processed' = 0 /\ bfiles' = <<>>
    /\ events' = <<>>
    /\ unlinked' = {}
    /\ handled' = NoneHandled
    /\ trashCalls' = 0
    /\ trashRaised' = FALSE
    /\ UNCHANGED <<disk, dirs, SETTINGS, variant, chk_preview, chk_browsers,
                   report, doneq, completed, envCount>>

\* What finish_clean reports: variant 2 reads the checkbox when the signal arrives.
ReportKind == IF variant = 2 /\ chk_preview THEN "preview" ELSE "deleted"

\* The done signal reaches the GUI thread: finish_clean up to its message box.
FinishClean ==
    /\ doneq
    /\ doneq' = FALSE
    /\ report' = ReportKind
    /\ ui' = "info"
    /\ UNCHANGED <<disk, dirs, SETTINGS, variant, chk_preview, chk_browsers, btn_clean,
                   asked, workerVars, events, started, completed, unlinked, handled,
                   trashCalls, trashRaised, envCount>>

\* The message box is closed: refresh_estimate(); btn_clean.setEnabled(True)
CloseInfo ==
    /\ ui = "info"
    /\ ui' = "main"
    /\ btn_clean' = BtnAfterFinish
    /\ UNCHANGED <<disk, dirs, SETTINGS, variant, chk_preview, chk_browsers, asked,
                   report, workerVars, events, doneq, started, completed, unlinked,
                   handled, trashCalls, trashRaised, envCount>>

GuiNext ==
    \/ TogglePreview \/ ToggleBrowsers \/ ClickClean \/ ConfirmNo \/ ConfirmYes
    \/ FinishClean \/ CloseInfo

(***************************************************************************)
(* Other processes: a file disappears while a run is in flight.            *)
(***************************************************************************)
EnvRemove ==
    /\ Running /\ envCount < MaxEnv
    /\ \E f \in DOMAIN disk : disk' = Unlink(f)
    /\ envCount' = envCount + 1
    /\ UNCHANGED <<dirs, SETTINGS, variant, guiVars, workerVars, events, doneq,
                   started, completed, unlinked, handled, trashCalls, trashRaised>>

\* Another process writes a new file below the temp directory once the run has
\* listed it (a file written earlier is a file of the disk the run starts on).
EnvCreate ==
    /\ Running /\ pc # "temp_scan" /\ envCount < MaxEnv
    /\ \E f \in TempFilePaths \ DOMAIN disk :
          /\ Parent(f) \in dirs
          /\ disk' = disk @@ (f :> PlainFile(MaxBytes(SETTINGS.max_size_mb)))
    /\ envCount' = envCount + 1
    /\ UNCHANGED <<dirs, SETTINGS, variant, guiVars, workerVars, events, doneq,
                   started, completed, unlinked, handled, trashCalls, trashRaised>>

Next == WorkerNext \/ GuiNext \/ EnvRemove

Spec == Init /\ [][Next]_vars

\* One run from its start to the report of its result, while another process
\* may write into the temp directory.  The thread, once started, keeps running,
\* and the event loop of the GUI thread delivers a queued signal.
LiveNext == WorkerNext \/ FinishClean \/ CloseInfo \/ EnvCreate

InitFew == InitMany /\ Cardinality(DOMAIN disk) <= MaxFew

SpecLive == InitFew /\ [][LiveNext]_vars /\ WF_vars(WorkerNext) /\ WF_vars(FinishClean)

\* The worker thread alone, from its start to its end.
SpecWorker == InitMany /\ [][WorkerNext]_vars

(***************************************************************************)
(* Properties.                                                             *)
(***************************************************************************)
ProgressOf(ph) == SelectSeq(events, LAMBDA e : e.sig = "progress" /\ e.phase = ph)
Paths(list)    == {list[j].path : j \in 1..Len(list)}

RECURSIVE SumSizes(_, _)
SumSizes(list, j) == IF j > Len(list) THEN 0 ELSE list[j].size + SumSizes(list, j + 1)

TempPassOver ==
    \/ phase \in {"browsers", "trash", "end"}
    \/ phase = "temp" /\ pc \in {"bro_list", "trash"}
BrowsersPassOver ==
    /\ include_browsers
    /\ phase \in {"trash", "end"} \/ (phase = "browsers" /\ pc = "trash")

\* C1, as claimed: in a preview run no file is removed and the figure reported
\* for each pass is 0.
C1_PreviewReportsZero ==
    (variant = 2 /\ preview /\ pc = "finished") =>
        /\ unlinked = {}
        /\ metrics.temp.freed = 0
        /\ metrics.browsers.freed = 0

\* C1, amended: a preview run removes no file itself, and the figure it reports
\* for each pass is the total size of the files the pass went through (the temp
\* pass: the sizes recorded by the enumeration; the browsers pass: the sizes read
\* during the walk), not 0.
C1_PreviewRemovesNothing ==
    (variant = 2 /\ preview /\ started > 0) =>
        /\ unlinked = {}
        /\ TempPassOver => metrics.temp.freed = SumSizes(files, 1)
        /\ BrowsersPassOver => metrics.browsers.freed = SumSizes(handled.browsers, 1)

C1_Witness ==
    /\ variant = 2 /\ preview /\ pc = "finished" /\ envCount = 0
    /\ metrics.temp.freed > 0 /\ metrics.browsers.freed > 0
    /\ Paths(handled.temp) \cup Paths(handled.browsers) \subseteq DOMAIN disk

\* C2, as claimed: no file at or below an excluded path is yielded as a
\* candidate, gone through by a pass, or deleted.
C2_ExcludedNeverTouched ==
    \A e \in SETTINGS.excludes :
        \A p \in Paths(files) \cup Paths(handled.temp) \cup Paths(handled.browsers)
                 \cup unlinked : ~IsPrefix(e, p)

\* C3: at every point of a run, and in the metrics it ends with, each pass's
\* deleted bytes are at most its detected bytes.
C3_DeletedAtMostDetected ==
    /\ acc.deleted <= acc.detected
    /\ metrics.temp.deleted <= metrics.temp.detected
    /\ metrics.browsers.deleted <= metrics.browsers.detected

C3_Witness ==
    /\ variant = 1 /\ pc = "finished"
    /\ 0 < metrics.temp.deleted /\ metrics.temp.deleted < metrics.temp.detected

\* C4: the scan of the temp root yields exactly the regular files below it whose
\* size is at most max_size_mb * 1024 * 1024 bytes, each once, with its size: a
\* file of exactly that size is yielded, a file one byte larger is not.
C4_ScanYieldsUpToCeiling ==
    [][ (pc = "temp_scan" /\ pc' = "temp_loop") =>
          /\ \A j \in 1..Len(WalkOrder) :
                LET p == WalkOrder[j] IN
                (p \in Paths(files')) <=>
                    /\ IsPrefix(TEMP_DIR, p)
                    /\ p \in DOMAIN disk
                    /\ disk[p].size <= SETTINGS.max_size_mb * 1048576
          /\ \A j \in 1..Len(files') : files'[j].size = disk[files'[j].path].size
          /\ \A j, k \in 1..Len(files') : files'[j].path = files'[k].path => j = k
      ]_vars

C4_Witness ==
    /\ pc = "temp_loop" /\ i = 1 /\ envCount = 0
    /\ \E j \in 1..Len(files) : files[j].size = SETTINGS.max_size_mb * 1048576
    /\ \E p \in TempFilePaths :
          /\ p \in DOMAIN disk /\ p \notin Paths(files)
          /\ disk[p].size = SETTINGS.max_size_mb * 1048576 + 1

\* C5, as claimed: every progress value of the browsers pass lies in 60..90, and
\* the j-th existing root brings the progress to 60 plus j equal shares of 30.
C5_BrowserProgressInSpan ==
    LET b == ProgressOf("browsers") IN
    \A j \in 1..Len(b) :
        /\ 60 <= b[j].val /\ b[j].val <= 90
        /\ b[j].val = 60 + (j * 30) \div total_entries

\* The temp candidates the run has fully dealt with.
TempDone ==
    IF phase = "none" THEN 0 ELSE IF phase = "temp" THEN i - 1 ELSE Len(files)

\* C6: in the temp pass over N >= 1 candidates every progress value lies in
\* 0..60, by the time k * 50 candidates are dealt with at least k progress events
\* have been emitted, and the last candidate is followed by a progress event.
C6_TempProgressCadence ==
    LET t == ProgressOf("temp") IN
    /\ \A j \in 1..Len(t) : 0 <= t[j].val /\ t[j].val <= 60
    /\ Len(t) >= TempDone \div 50
    /\ (phase = "temp" /\ Len(files) >= 1 /\ TempDone = Len(files)) =>
           /\ events[Len(events)].sig = "progress"
           /\ events[Len(events)].phase = "temp"

C6_Witness ==
    /\ phase = "temp" /\ Len(files) > 100 /\ TempDone = Len(files)
    /\ Len(ProgressOf("temp")) = 3

\* C7: within the temp pass and within the browsers pass, the progress values
\* are emitted in non-decreasing order.
C7_ProgressNonDecreasingPerPass ==
    \A ph \in {"temp", "browsers"} :
        LET t == ProgressOf(ph) IN
        \A j \in 1..(Len(t) - 1) : t[j].val <= t[j + 1].val

C7_Witness ==
    /\ pc = "finished"
    /\ Len(ProgressOf("temp")) >= 3 /\ Len(ProgressOf("browsers")) >= 2
    /\ ProgressOf("temp")[1].val < ProgressOf("temp")[3].val
    /\ ProgressOf("browsers")[1].val < ProgressOf("browsers")[2].val

C9_AtMostOneRunInFlight ==
    /\ started - completed <= 1
    /\ Running => (started = completed + 1 /\ ~btn_clean /\ ui # "confirm")

C9_Witness ==
    /\ started = 2 /\ completed = 1 /\ Running /\ pc = "temp_loop"

\* C10: in the metrics a run ends with, each pass's count is the number of files
\* the pass went through, whether or not each was deleted.
C10_CountIsFilesHandled ==
    variant = 1 =>
        /\ TempPassOver =>
              /\ metrics.temp.count = Len(handled.temp)
              /\ metrics.temp.count = Len(files)
        /\ BrowsersPassOver => metrics.browsers.count = Len(handled.browsers)
        /\ ~include_browsers => metrics.browsers.count = 0

C10_Witness ==
    /\ variant = 1 /\ pc = "finished" /\ envCount = 1
    /\ metrics.temp.count = 2 /\ metrics.temp.deleted = 0
    /\ Cardinality(DOMAIN disk) = 1

\* C11: when empty_recycle_bin raises, run() is not aborted: it goes on to
\* progress 100 and done; the result's recycle flag is false (variant 1, whose
\* result holds one); and the temp and browsers metrics of the result are the
\* ones the passes returned, untouched by the recycle bin step.
C11_TrashFailureNotFatal ==
    /\ [](trashRaised =>
            /\ pc \in {"finish", "finished"}
            /\ variant = 1 => ~metrics.recycle
            /\ (IF include_browsers THEN metrics.browsers ELSE metrics.temp) = acc
            /\ (variant = 1) => metrics.temp.count = Len(files))
    /\ [][pc = "trash" =>
            (metrics'.temp = metrics.temp /\ metrics'.browsers = metrics.browsers)]_vars
    /\ (trashRaised ~> (pc = "finished" /\ events[Len(events)] = Done))

C11_Witness ==
    /\ trashRaised /\ pc = "finished" /\ variant = 1 /\ ~metrics.recycle
    /\ metrics.temp.deleted > 0 /\ metrics.browsers.count > 0

\* C12: in a run started without the browser caches, browser_cache_dirs is not
\* called, no cache directory is walked, no file below one is gone through or
\* removed, no signal of the browsers pass is emitted, and the browsers metrics
\* stay at zero.
C12_NoBrowsersWhenDisabled ==
    (started > 0 /\ ~include_browsers) =>
        /\ pc \notin {"bro_list", "bro_root", "bro_enter", "bro_file"}
        /\ phase # "browsers"
        /\ bdirs = <<>> /\ bfiles = <<>> /\ processed = 0
        /\ handled.browsers = <<>>
        /\ \A p \in unlinked \cup Paths(handled.temp) : IsPrefix(TEMP_DIR, p)
        /\ \A j \in 1..Len(events) : events[j].phase # "browsers"
        /\ metrics.browsers = ZeroAcc

C12_Witness ==
    /\ pc = "finished" /\ ~include_browsers /\ envCount = 0
    /\ TempA \in unlinked
    /\ \E p \in BrowserFilePaths : p \in DOMAIN disk /\ disk[p] = PlainFile(disk[p].size)

\* C13: when the file _delete_file_safe is called on no longer exists, the call
\* reads size 0, adds 0 to the detected and 0 to the deleted bytes, raises
\* nothing, and the pass goes on with its next file.
C13_VanishedYieldsZero ==
    [][ /\ (pc = "stat" /\ ~Exists(loc.p) /\ pc' # "stat") =>
               (pc' = "access" /\ loc'.size = 0)
        /\ (pc = "access" /\ ~Exists(loc.p) /\ loc.size = 0 /\ pc' # "access") =>
               /\ acc'.detected = acc.detected
               /\ acc'.deleted = acc.deleted
               /\ pc' = (IF phase = "temp" THEN "temp_loop" ELSE "bro_file")
               /\ phase = "temp" => i' = i + 1
      ]_vars

C13_Witness ==
    /\ variant = 1 /\ pc = "finished" /\ Len(handled.temp) = 2
    /\ handled.temp[1].path \notin (DOMAIN disk) \cup unlinked
    /\ handled.temp[1].size > 0
    /\ handled.temp[2].path \in unlinked
    /\ metrics.temp.detected = handled.temp[2].size
    /\ metrics.temp.deleted = handled.temp[2].size
    /\ metrics.temp.count = 2

\* C14: when the file _delete_file_safe is called on exists and may not be
\* written, unlink is not called: the call adds the file's size to the detected
\* bytes and 0 to the deleted bytes, and the file is still there.
C14_WriteDeniedNotDeleted ==
    [][ (pc = "access" /\ IsFile(loc.p) /\ ~disk[loc.p].writable /\ pc' # "access") =>
            /\ pc' # "unlink"
            /\ acc'.detected = acc.detected + disk[loc.p].size
            /\ acc'.deleted = acc.deleted
            /\ loc.p \in DOMAIN disk' /\ disk'[loc.p] = disk[loc.p]
      ]_vars

C14_Witness ==
    /\ variant = 1 /\ pc = "finished" /\ Len(handled.temp) = 1 /\ unlinked = {}
    /\ handled.temp[1].path \in DOMAIN disk
    /\ ~disk[handled.temp[1].path].writable
    /\ handled.temp[1].size > 0
    /\ metrics.temp.detected = handled.temp[1].size
    /\ metrics.temp.deleted = 0

\* C15, as claimed: no file larger than max_size_mb * 1024 * 1024 bytes is gone
\* through by the temp pass or by the browsers pass.
C15_CeilingInEveryPass ==
    \A ph \in {"temp", "browsers"} :
        \A j \in 1..Len(handled[ph]) :
            handled[ph][j].size <= SETTINGS.max_size_mb * 1048576

\* C16, as claimed: when the file is gone by the time _delete_file_safe calls
\* unlink (another process removed it after the stat), the call adds 0 to the
\* deleted bytes.
C16_RacedDeletionCountsZero ==
    [][ (pc = "unlink" /\ ~IsFile(loc.p) /\ pc' # "unlink") =>
            acc'.deleted = acc.deleted
      ]_vars

\* C17, as claimed: every started run eventually emits done, whatever happens
\* to the listings it makes on its way.
C17_EveryRunCompletes == [](started > completed => <>(completed = started))

C19_TempListMaterialized ==
    /\ pc = "temp_scan" => (events = <<>> /\ unlinked = {} /\ handled.temp = <<>>)
    /\ Len(handled.temp) <= Len(files)
    /\ \A j \in 1..Len(handled.temp) : handled.temp[j] = files[j]
    /\ \A p \in unlinked : IsPrefix(TEMP_DIR, p) => p \in Paths(files)
    /\ Len(ProgressOf("temp")) > 0 => phase # "none"

C19_Witness ==
    /\ pc = "finished" /\ ~preview /\ envCount > 0
    /\ Len(files) >= 1 /\ unlinked = Paths(files)
    /\ TempA \in DOMAIN disk /\ TempA \notin Paths(files)
    /\ disk[TempA].size <= SETTINGS.max_size_mb * 1048576

\* C20: the pass that removes empty directories below the temp directory runs
\* only outside preview and only once every listed temp file has been gone
\* through; directories change at no other point; a directory that still holds
\* a file is not removed, and the pass returns the counters of the file loop
\* unchanged and run() goes on.
C20_RmdirAfterFilesRealRunOnly ==
    [][ /\ pc = "temp_dirs" =>
              /\ ~(variant = 2 /\ preview)
              /\ i > Len(files) /\ Len(handled.temp) = Len(files)
        /\ dirs' # dirs => pc = "temp_dirs"
        /\ (pc = "temp_dirs" /\ pc' \notin {"temp_dirs", "crashed"}) =>
              /\ metrics'.temp = acc /\ acc' = acc
              /\ pc' = (IF include_browsers THEN "bro_list" ELSE "trash")
              /\ \A d \in dirs :
                    (\E q \in DOMAIN disk : Len(q) > Len(d) /\ IsPrefix(d, q)) => d \in dirs'
      ]_vars

C20_Witness ==
    /\ pc = "finished" /\ ~preview
    /\ TempA \in unlinked
    /\ TempC \in DOMAIN disk /\ TempC \in Paths(handled.temp)
    /\ TempDeep \in dirs /\ TempSub \in dirs

\* C21, as claimed: the report finish_clean shows for a run says preview when
\* the run was started as a preview and deletion otherwise, whatever the user
\* did to the preview checkbox while the worker was running.
C21_ReportMatchesRunFlag ==
    ui = "info" => report = (IF preview THEN "preview" ELSE "deleted")

\* C22, as claimed: over a whole run every progress value lies in 0..100 and no
\* progress value is smaller than the one emitted before it.
C22_ProgressMonotoneWholeRun ==
    LET p == SelectSeq(events, LAMBDA e : e.sig = "progress") IN
    /\ \A j \in 1..Len(p) : 0 <= p[j].val /\ p[j].val <= 100
    /\ \A j \in 1..(Len(p) - 1) : p[j].val <= p[j + 1].val

=============================================================================
